---------------------------- MODULE Spec2Model ----------------------------
(***************************************************************************)
(* A model of requests_pkcs12.py: the construction of a Pkcs12Adapter      *)
(* (argument validation, PKCS#12 decode, expiry checks, materialisation of *)
(* the key and certificate chain in a temporary file, load_cert_chain) and *)
(* the per-request check_hostname override of cert_verify and send.        *)
(***************************************************************************)
EXTENDS Integers, Sequences, FiniteSets, TLC

\* ------------------------------------------------------------------ bounds
\* Number of distinct certificates the decoder may return.
NCerts == 3
\* Longest certificate chain (ca_certs) the decoder may return.
MaxChain == 2
\* The clock (datetime.utcnow) runs over 0..MaxNow.
MaxNow == 2
\* Number of threads issuing requests through one adapter.
NThreads == 2

\* ------------------------------------------------------------ value domains
None == "None"

\* A certificate: an identity and its not_valid_after timestamp.  Certificate
\* i expires at time i - 1, so that for a clock value in between some
\* certificates are expired, one is exactly at the boundary and some are valid.
Certs == {[id |-> i, not_valid_after |-> i - 1] : i \in 1..NCerts}
\* The decoder returns None for a bundle that holds no certificate.
NoCert == [id |-> 0, not_valid_after |-> 0]

SeqsUpTo(S, n) == UNION {[1..k -> S] : k \in 0..n}

\* ca_certs as returned by load_key_and_certificates: a list, possibly empty.
Chains == SeqsUpTo(Certs, MaxChain)

\* The pkcs12_password keyword argument: None, bytes, str (code points) or
\* an object of another type.
PasswordArgs ==
    { [type |-> "none",  val |-> <<>>],
      [type |-> "bytes", val |-> <<>>],
      [type |-> "bytes", val |-> <<112>>],
      [type |-> "str",   val |-> <<233>>],
      [type |-> "other", val |-> <<>>] }

NoPassword == [present |-> FALSE, val |-> <<>>]

TmpNames == {"tmpA", "tmpB"}

NoError == [type |-> "none", msg |-> ""]
Err(t, m) == [type |-> t, msg |-> m]

NoBlock == [kind |-> "", id |-> 0, enc |-> FALSE, pass |-> <<>>]

\* ------------------------------------------------------------------- state
VARIABLES
    \* --- Pkcs12Adapter.__init__ / create_sslcontext ---
    pc,                 \* position of the construction
    kwargs,             \* the keyword arguments given to __init__
    pkcs12_data,        \* None or the bundle bytes
    pkcs12_password_bytes, \* normalised password
    private_key,        \* decoder output: None or the key
    cert,               \* decoder output: the leaf certificate
    ca_certs,           \* decoder output: the chain
    idx,                \* position of the for loop over ca_certs
    now,                \* datetime.datetime.utcnow()
    pk_buf,             \* the serialised private-key block
    c_name,             \* name of the NamedTemporaryFile, None before it exists
    c_buffer,           \* blocks written to c and not yet flushed
    files,              \* the temporary directory: name -> file
    ssl_context,        \* the SSLContext under construction
    err,                \* the exception in flight, NoError if none
    raisedAt,           \* where the exception in flight was raised
    hist,               \* what the current construction has done so far
    \* --- cert_verify / send on a constructed adapter ---
    check_hostname,     \* self.ssl_context.check_hostname, shared by all requests
    tpc,                \* per thread: position in send / cert_verify
    call,               \* per thread: the outermost call, "send" or "cert_verify"
    verify,             \* per thread: the verify argument
    send_saved,         \* per thread: the local check_hostname of send
    cv_saved,           \* per thread: the local check_hostname of cert_verify
    exc,                \* per thread: whether an exception is in flight
    entry,              \* per thread: the flag when the outermost call began
    cv_entry,           \* per thread: the flag when cert_verify began
    last_done,          \* the verify argument of the call that completed last
    initial_flag        \* the flag before the first request

buildVars == <<pc, kwargs, pkcs12_data, pkcs12_password_bytes, private_key, cert,
               ca_certs, idx, now, pk_buf, c_name, c_buffer, files, ssl_context,
               err, raisedAt, hist>>
adapterVars == <<check_hostname, tpc, call, verify, send_saved, cv_saved, exc,
                 entry, cv_entry, last_done, initial_flag>>
vars == <<buildVars, adapterVars>>

Threads == 1..NThreads
VerifyValues == {"False", "True", "ca_path"}

\* --------------------------------------------------------- pure functions

\* str.encode('utf8') of one code point below U+0800.
Utf8Char(cp) == IF cp < 128 THEN <<cp>> ELSE <<192 + (cp \div 64), 128 + (cp % 64)>>

RECURSIVE Utf8(_)
Utf8(s) == IF s = <<>> THEN <<>> ELSE Utf8Char(Head(s)) \o Utf8(Tail(s))

\* check_cert_not_after: the exception it raises, NoError when it returns.
\* Variant: the comparison of line 37 taken as <=.
check_cert_not_after_AtOrBefore(c, clock) ==
    IF c.not_valid_after <= clock
    THEN Err("ValueError", "Client certificate expired")
    ELSE NoError

check_cert_not_after(c, clock) ==
    IF c.not_valid_after < clock
    THEN Err("ValueError", "Client certificate expired")
    ELSE NoError

\* The PEM encoding of a certificate (public_bytes(Encoding.PEM)).
PemCert(c) == [kind |-> "CERTIFICATE", id |-> c.id, enc |-> FALSE, pass |-> <<>>]

\* private_bytes(PEM, TraditionalOpenSSL, NoEncryption()).
PemKeyPlain == [kind |-> "PRIVATE KEY", id |-> 0, enc |-> FALSE, pass |-> <<>>]

\* private_bytes(PEM, TraditionalOpenSSL, BestAvailableEncryption(password)).
PemKeyEncrypted(pw) == [kind |-> "PRIVATE KEY", id |-> 0, enc |-> TRUE, pass |-> pw]

\* BestAvailableEncryption(password): rejects an empty password.
BestAvailableEncryption(pw) ==
    IF Len(pw) = 0
    THEN Err("ValueError", "Password must be 1 or more bytes.")
    ELSE NoError


\* A name of the temporary directory with no file under it.
NoFile == [exists |-> FALSE, content |-> <<>>]

\* The names that are files on disk.
OnDisk(fs) == {n \in TmpNames : fs[n].exists}

\* os.remove(name) applied to the directory.
OsRemove(fs, name) == [fs EXCEPT ![name] = NoFile]

\* NamedTemporaryFile(delete=False) applied to the directory: a new empty file.
CreateFile(fs, name) == [fs EXCEPT ![name] = [exists |-> TRUE, content |-> <<>>]]

\* Flushed blocks reach the file on disk.
AppendFile(fs, name, blocks) == [fs EXCEPT ![name].content = @ \o blocks]

\* Lines 83-86 of __init__: the exception for the pair of sources given.
\* Variant: without the check of lines 85-86.
ValidateSources_NoConflictCheck(data, filename) ==
    IF data = None /\ filename = None
    THEN Err("ValueError", "Both arguments \"pkcs12_data\" and \"pkcs12_filename\" are missing")
    ELSE NoError

ValidateSources(data, filename) ==
    IF data = None /\ filename = None
    THEN Err("ValueError", "Both arguments \"pkcs12_data\" and \"pkcs12_filename\" are missing")
    ELSE IF data # None /\ filename # None
    THEN Err("ValueError", "Argument \"pkcs12_data\" conflicts with \"pkcs12_filename\"")
    ELSE NoError

\* Lines 90-97 of __init__: the password as bytes, or the TypeError.
NormalizePassword(p) ==
    CASE p.type = "none"  -> [err |-> NoError, pw |-> NoPassword]
      [] p.type = "bytes" -> [err |-> NoError, pw |-> [present |-> TRUE, val |-> p.val]]
      [] p.type = "str"   -> [err |-> NoError, pw |-> [present |-> TRUE, val |-> Utf8(p.val)]]
      [] OTHER            -> [err |-> Err("TypeError", "Password must be a None, string or bytes."),
                              pw |-> NoPassword]

\* Lines 49-60: the private-key block, or the exception of the encryption.
\* Variant: line 49 testing the truth of the password instead of `is not None`.
SerializeKey_EmptyAsNone(pw) ==
    IF pw.present /\ Len(pw.val) > 0
    THEN [err |-> NoError, buf |-> PemKeyEncrypted(pw.val)]
    ELSE [err |-> NoError, buf |-> PemKeyPlain]

SerializeKey(pw) ==
    IF pw.present
    THEN IF BestAvailableEncryption(pw.val) # NoError
         THEN [err |-> BestAvailableEncryption(pw.val), buf |-> NoBlock]
         ELSE [err |-> NoError, buf |-> PemKeyEncrypted(pw.val)]
    ELSE [err |-> NoError, buf |-> PemKeyPlain]

\* What load_cert_chain accepts: a private key the password opens, then at
\* least one certificate.
Loadable(content, pw) ==
    /\ Len(content) >= 2
    /\ content[1].kind = "PRIVATE KEY"
    /\ content[1].enc => (pw.present /\ content[1].pass = pw.val)
    /\ \A i \in 2..Len(content) : content[i].kind = "CERTIFICATE"

NoContext == [exists |-> FALSE, chain |-> <<>>, returned |-> FALSE]

NoHist == [fileRead |-> FALSE, decodeCalled |-> FALSE, ctxCreated |-> FALSE,
           created |-> {}, written |-> <<>>, loadCalled |-> FALSE,
           handed |-> <<>>, keySerialized |-> FALSE,
           checked |-> FALSE, checkCert |-> NoCert, checkNow |-> 0,
           checkRaised |-> FALSE]

NoKwargs == [pkcs12_data |-> None, pkcs12_filename |-> None,
             pkcs12_password |-> [type |-> "none", val |-> <<>>]]

\* ------------------------------------------------------------------- Init
InitBuild ==
    /\ pc = "idle"
    /\ kwargs = NoKwargs
    /\ pkcs12_data = None
    /\ pkcs12_password_bytes = NoPassword
    /\ private_key = None
    /\ cert = NoCert
    /\ ca_certs = [present |-> FALSE, list |-> <<>>]
    /\ idx = 0
    /\ now = 0
    /\ pk_buf = NoBlock
    /\ c_name = None
    /\ c_buffer = <<>>
    /\ files = [n \in TmpNames |-> NoFile]
    /\ ssl_context = NoContext
    /\ err = NoError
    /\ raisedAt = ""
    /\ hist = NoHist

InitAdapter ==
    /\ check_hostname \in BOOLEAN
    /\ initial_flag = check_hostname
    /\ tpc = [t \in Threads |-> "idle"]
    /\ call = [t \in Threads |-> "none"]
    /\ verify = [t \in Threads |-> "True"]
    /\ send_saved = [t \in Threads |-> FALSE]
    /\ cv_saved = [t \in Threads |-> FALSE]
    /\ exc = [t \in Threads |-> FALSE]
    /\ entry = [t \in Threads |-> FALSE]
    /\ cv_entry = [t \in Threads |-> FALSE]
    /\ last_done = "none"

\* An SSLContext of PROTOCOL_TLS_CLIENT starts with check_hostname enabled.
InitConstruction == InitBuild /\ InitAdapter /\ check_hostname = TRUE

\* ------------------------------------------- Pkcs12Adapter.__init__ steps

\* The exception e leaves the function: before the with block nothing is to
\* be cleaned up; inside the try block the finally clause runs first.
RaiseTo(e, where, next) ==
    /\ err' = e
    /\ raisedAt' = where
    /\ pc' = next

\* __init__ is called: lines 79-86.
Construct ==
    /\ pc = "idle"
    /\ \E d \in {None, "bytes"}, f \in {None, "good.p12", "missing.p12"}, p \in PasswordArgs :
         /\ kwargs' = [pkcs12_data |-> d, pkcs12_filename |-> f, pkcs12_password |-> p]
         /\ pkcs12_data' = d
         /\ IF ValidateSources(d, f) # NoError
            THEN RaiseTo(ValidateSources(d, f), "validate", "done")
            ELSE /\ pc' = "init_read"
                 /\ UNCHANGED <<err, raisedAt>>
    /\ UNCHANGED <<pkcs12_password_bytes, private_key, cert, ca_certs, idx, now,
                   pk_buf, c_name, c_buffer, files, ssl_context, hist>>
    /\ UNCHANGED adapterVars

\* Lines 87-89: read the bundle from the file when a file name was given.
InitRead ==
    /\ pc = "init_read"
    /\ IF kwargs.pkcs12_filename = None
       THEN /\ pc' = "init_pw"
            /\ UNCHANGED <<pkcs12_data, hist, err, raisedAt>>
       ELSE IF kwargs.pkcs12_filename = "missing.p12"
       THEN /\ RaiseTo(Err("FileNotFoundError", "No such file or directory"), "open", "done")
            /\ UNCHANGED <<pkcs12_data, hist>>
       ELSE /\ pkcs12_data' = "bytes"
            /\ hist' = [hist EXCEPT !.fileRead = TRUE]
            /\ pc' = "init_pw"
            /\ UNCHANGED <<err, raisedAt>>
    /\ UNCHANGED <<kwargs, pkcs12_password_bytes, private_key, cert, ca_certs, idx,
                   now, pk_buf, c_name, c_buffer, files, ssl_context>>
    /\ UNCHANGED adapterVars

\* Lines 90-97: the password as bytes.
InitPassword ==
    /\ pc = "init_pw"
    /\ LET r == NormalizePassword(kwargs.pkcs12_password) IN
         IF r.err # NoError
         THEN /\ RaiseTo(r.err, "password", "done")
              /\ UNCHANGED pkcs12_password_bytes
         ELSE /\ pkcs12_password_bytes' = r.pw
              /\ pc' = "decode"
              /\ UNCHANGED <<err, raisedAt>>
    /\ UNCHANGED <<kwargs, pkcs12_data, private_key, cert, ca_certs, idx, now, pk_buf,
                   c_name, c_buffer, files, ssl_context, hist>>
    /\ UNCHANGED adapterVars

\* ------------------------------------------------- create_sslcontext steps

\* What check_cert_not_after was last called with and whether it raised.
Checked(h, c, clock, e) ==
    [h EXCEPT !.checked = TRUE, !.checkCert = c, !.checkNow = clock,
              !.checkRaised = (e # NoError)]

\* Lines 41-44: load_key_and_certificates either rejects the bundle or
\* returns a key, a certificate and a list of further certificates.
Decode ==
    /\ pc = "decode"
    /\ hist' = [hist EXCEPT !.decodeCalled = TRUE]
    /\ \/ /\ RaiseTo(Err("ValueError", "Invalid password or PKCS12 data"), "decode", "done")
          /\ UNCHANGED <<private_key, cert, ca_certs>>
       \/ /\ private_key' \in {None, "key"}
          /\ cert' \in Certs \cup {NoCert}
          /\ ca_certs' \in {[present |-> FALSE, list |-> <<>>]}
                           \cup {[present |-> TRUE, list |-> l] : l \in Chains}
          /\ pc' = "check_leaf"
          /\ UNCHANGED <<err, raisedAt>>
    /\ UNCHANGED <<kwargs, pkcs12_data, pkcs12_password_bytes, idx, now, pk_buf,
                   c_name, c_buffer, files, ssl_context>>
    /\ UNCHANGED adapterVars

\* Line 45: check_cert_not_after(cert).
CheckLeaf ==
    /\ pc = "check_leaf"
    /\ IF cert = NoCert
       THEN /\ RaiseTo(Err("AttributeError", "'NoneType' object has no attribute 'not_valid_after'"),
                       "check_leaf", "done")
            /\ UNCHANGED hist
       ELSE LET e == check_cert_not_after(cert, now) IN
            /\ hist' = Checked(hist, cert, now, e)
            /\ IF e # NoError
               THEN RaiseTo(e, "check_leaf", "done")
               ELSE /\ pc' = "new_ctx"
                    /\ UNCHANGED <<err, raisedAt>>
    /\ UNCHANGED <<kwargs, pkcs12_data, pkcs12_password_bytes, private_key, cert,
                   ca_certs, idx, now, pk_buf, c_name, c_buffer, files, ssl_context>>
    /\ UNCHANGED adapterVars

\* Line 46: ssl.SSLContext(ssl_protocol).
NewContext ==
    /\ pc = "new_ctx"
    /\ ssl_context' = [exists |-> TRUE, chain |-> <<>>, returned |-> FALSE]
    /\ hist' = [hist EXCEPT !.ctxCreated = TRUE]
    /\ pc' = "open_tmp"
    /\ UNCHANGED <<kwargs, pkcs12_data, pkcs12_password_bytes, private_key, cert,
                   ca_certs, idx, now, pk_buf, c_name, c_buffer, files, err, raisedAt>>
    /\ UNCHANGED adapterVars

\* Line 47: tempfile.NamedTemporaryFile(delete=False) creates a file under a
\* name not in use.
OpenTemp ==
    /\ pc = "open_tmp"
    /\ \E n \in TmpNames \ OnDisk(files) :
         /\ c_name' = n
         /\ files' = CreateFile(files, n)
         /\ hist' = [hist EXCEPT !.created = @ \cup {n}]
    /\ c_buffer' = <<>>
    /\ pc' = "ser_key"
    /\ UNCHANGED <<kwargs, pkcs12_data, pkcs12_password_bytes, private_key, cert,
                   ca_certs, idx, now, pk_buf, ssl_context, err, raisedAt>>
    /\ UNCHANGED adapterVars

\* Lines 49-60: private_key.private_bytes(...), encrypted when a password is given.
SerKey ==
    /\ pc = "ser_key"
    /\ IF private_key = None
       THEN /\ RaiseTo(Err("AttributeError", "'NoneType' object has no attribute 'private_bytes'"),
                       "ser_key", "finally")
            /\ UNCHANGED <<pk_buf, hist>>
       ELSE LET r == SerializeKey(pkcs12_password_bytes) IN
            IF r.err # NoError
            THEN /\ RaiseTo(r.err, "ser_key", "finally")
                 /\ UNCHANGED <<pk_buf, hist>>
            ELSE /\ pk_buf' = r.buf
                 /\ hist' = [hist EXCEPT !.keySerialized = TRUE]
                 /\ pc' = "write_key"
                 /\ UNCHANGED <<err, raisedAt>>
    /\ UNCHANGED <<kwargs, pkcs12_data, pkcs12_password_bytes, private_key, cert,
                   ca_certs, idx, now, c_name, c_buffer, files, ssl_context>>
    /\ UNCHANGED adapterVars

\* c.write(buf): the block joins the file object's buffer, or the write fails.
CWrite(buf, next) ==
    \/ /\ c_buffer' = Append(c_buffer, buf)
       /\ hist' = [hist EXCEPT !.written = Append(@, buf)]
       /\ pc' = next
       /\ UNCHANGED <<err, raisedAt>>
    \/ /\ RaiseTo(Err("OSError", "No space left on device"), "write", "finally")
       /\ UNCHANGED <<c_buffer, hist>>

\* Line 61: c.write(pk_buf).
WriteKey ==
    /\ pc = "write_key"
    /\ CWrite(pk_buf, "write_leaf")
    /\ UNCHANGED <<kwargs, pkcs12_data, pkcs12_password_bytes, private_key, cert,
                   ca_certs, idx, now, pk_buf, c_name, files, ssl_context>>
    /\ UNCHANGED adapterVars

\* Lines 62-63: the leaf certificate.
WriteLeaf ==
    /\ pc = "write_leaf"
    /\ CWrite(PemCert(cert), "chain")
    /\ idx' = 1
    /\ UNCHANGED <<kwargs, pkcs12_data, pkcs12_password_bytes, private_key, cert,
                   ca_certs, now, pk_buf, c_name, files, ssl_context>>
    /\ UNCHANGED adapterVars

\* Lines 64-65: whether the for loop has another certificate to handle.
ChainHasNext == ca_certs.present /\ idx <= Len(ca_certs.list)

\* Lines 65-68: one iteration of the loop over ca_certs.
\* Variant: a certificate already written is not written again.
ChainStep_SkipRepeated ==
    /\ pc = "chain"
    /\ ChainHasNext
    /\ LET ca == ca_certs.list[idx]
           e == check_cert_not_after(ca, now) IN
         IF e # NoError
         THEN /\ hist' = Checked(hist, ca, now, e)
              /\ RaiseTo(e, "check_chain", "finally")
              /\ UNCHANGED <<c_buffer, idx>>
         ELSE /\ IF \E j \in 1..Len(c_buffer) : c_buffer[j] = PemCert(ca)
                 THEN /\ hist' = Checked(hist, ca, now, e)
                      /\ UNCHANGED c_buffer
                 ELSE /\ c_buffer' = Append(c_buffer, PemCert(ca))
                      /\ hist' = [Checked(hist, ca, now, e) EXCEPT !.written = Append(@, PemCert(ca))]
              /\ idx' = idx + 1
              /\ pc' = "chain"
              /\ UNCHANGED <<err, raisedAt>>
    /\ UNCHANGED <<kwargs, pkcs12_data, pkcs12_password_bytes, private_key, cert,
                   ca_certs, now, pk_buf, c_name, files, ssl_context>>
    /\ UNCHANGED adapterVars

\* Variant: lines 66 and 67-68 exchanged.
ChainStep_WriteBeforeCheck ==
    /\ pc = "chain"
    /\ ChainHasNext
    /\ LET ca == ca_certs.list[idx]
           e == check_cert_not_after(ca, now) IN
         /\ c_buffer' = Append(c_buffer, PemCert(ca))
         /\ hist' = [Checked(hist, ca, now, e) EXCEPT !.written = Append(@, PemCert(ca))]
         /\ IF e # NoError
            THEN /\ RaiseTo(e, "check_chain", "finally")
                 /\ UNCHANGED idx
            ELSE /\ idx' = idx + 1
                 /\ pc' = "chain"
                 /\ UNCHANGED <<err, raisedAt>>
    /\ UNCHANGED <<kwargs, pkcs12_data, pkcs12_password_bytes, private_key, cert,
                   ca_certs, now, pk_buf, c_name, files, ssl_context>>
    /\ UNCHANGED adapterVars

ChainStep ==
    /\ pc = "chain"
    /\ ChainHasNext
    /\ LET ca == ca_certs.list[idx]
           e == check_cert_not_after(ca, now) IN
         IF e # NoError
         THEN /\ hist' = Checked(hist, ca, now, e)
              /\ RaiseTo(e, "check_chain", "finally")
              /\ UNCHANGED <<c_buffer, idx>>
         ELSE \/ /\ c_buffer' = Append(c_buffer, PemCert(ca))
                 /\ hist' = [Checked(hist, ca, now, e) EXCEPT !.written = Append(@, PemCert(ca))]
                 /\ idx' = idx + 1
                 /\ pc' = "chain"
                 /\ UNCHANGED <<err, raisedAt>>
              \/ /\ hist' = Checked(hist, ca, now, e)
                 /\ RaiseTo(Err("OSError", "No space left on device"), "write", "finally")
                 /\ UNCHANGED <<c_buffer, idx>>
    /\ UNCHANGED <<kwargs, pkcs12_data, pkcs12_password_bytes, private_key, cert,
                   ca_certs, now, pk_buf, c_name, files, ssl_context>>
    /\ UNCHANGED adapterVars

\* Lines 69-70: c.flush(); c.close(): the buffered blocks reach the disk.
FlushClose ==
    /\ pc = "chain"
    /\ ~ChainHasNext
    /\ \/ /\ files' = AppendFile(files, c_name, c_buffer)
          /\ c_buffer' = <<>>
          /\ pc' = "load"
          /\ UNCHANGED <<err, raisedAt>>
       \/ /\ RaiseTo(Err("OSError", "No space left on device"), "flush", "finally")
          /\ UNCHANGED <<files, c_buffer>>
    /\ UNCHANGED <<kwargs, pkcs12_data, pkcs12_password_bytes, private_key, cert,
                   ca_certs, idx, now, pk_buf, c_name, ssl_context, hist>>
    /\ UNCHANGED adapterVars

\* Line 71: ssl_context.load_cert_chain(c.name, password=...) reads the file
\* and loads it, or rejects it.
LoadCertChain ==
    /\ pc = "load"
    /\ LET content == files[c_name].content IN
         /\ hist' = [hist EXCEPT !.loadCalled = TRUE, !.handed = content]
         /\ \/ /\ files[c_name].exists
               /\ Loadable(content, pkcs12_password_bytes)
               /\ ssl_context' = [ssl_context EXCEPT !.chain = content]
               /\ pc' = "finally"
               /\ UNCHANGED <<err, raisedAt>>
            \/ /\ RaiseTo(Err("SSLError", "PEM lib"), "load", "finally")
               /\ UNCHANGED ssl_context
    /\ UNCHANGED <<kwargs, pkcs12_data, pkcs12_password_bytes, private_key, cert,
                   ca_certs, idx, now, pk_buf, c_name, c_buffer, files>>
    /\ UNCHANGED adapterVars

\* Lines 72-74 and 99: os.remove(c.name), then the exception in flight leaves
\* the function, or the context is returned and stored in the adapter.
\* Variant: os.remove at the end of the try block instead of in finally.
Finally_RemoveOnSuccessOnly ==
    /\ pc = "finally"
    /\ files' = IF err = NoError THEN OsRemove(files, c_name) ELSE files
    /\ ssl_context' = [ssl_context EXCEPT !.returned = (err = NoError)]
    /\ pc' = "done"
    /\ UNCHANGED <<kwargs, pkcs12_data, pkcs12_password_bytes, private_key, cert,
                   ca_certs, idx, now, pk_buf, c_name, c_buffer, err, raisedAt, hist>>
    /\ UNCHANGED adapterVars

Finally ==
    /\ pc = "finally"
    /\ files' = OsRemove(files, c_name)
    /\ ssl_context' = [ssl_context EXCEPT !.returned = (err = NoError)]
    /\ pc' = "done"
    /\ UNCHANGED <<kwargs, pkcs12_data, pkcs12_password_bytes, private_key, cert,
                   ca_certs, idx, now, pk_buf, c_name, c_buffer, err, raisedAt, hist>>
    /\ UNCHANGED adapterVars

\* The construction has returned or raised; the caller goes on and may
\* construct another adapter.  The directory and the clock stay as they are.
Return ==
    /\ pc = "done"
    /\ pc' = "idle"
    /\ kwargs' = NoKwargs
    /\ pkcs12_data' = None
    /\ pkcs12_password_bytes' = NoPassword
    /\ private_key' = None
    /\ cert' = NoCert
    /\ ca_certs' = [present |-> FALSE, list |-> <<>>]
    /\ idx' = 0
    /\ pk_buf' = NoBlock
    /\ c_name' = None
    /\ c_buffer' = <<>>
    /\ ssl_context' = NoContext
    /\ err' = NoError
    /\ raisedAt' = ""
    /\ hist' = NoHist
    /\ UNCHANGED <<now, files>>
    /\ UNCHANGED adapterVars

\* Time passes.
Tick ==
    /\ now < MaxNow
    /\ now' = now + 1
    /\ UNCHANGED <<pc, kwargs, pkcs12_data, pkcs12_password_bytes, private_key, cert,
                   ca_certs, idx, pk_buf, c_name, c_buffer, files, ssl_context,
                   err, raisedAt, hist>>
    /\ UNCHANGED adapterVars

NextBuild ==
    \/ Construct
    \/ InitRead
    \/ InitPassword
    \/ Decode
    \/ CheckLeaf
    \/ NewContext
    \/ OpenTemp
    \/ SerKey
    \/ WriteKey
    \/ WriteLeaf
    \/ ChainStep
    \/ FlushClose
    \/ LoadCertChain
    \/ Finally
    \/ Return
    \/ Tick

\* The construction of adapters, one after another.
SpecBuild == InitConstruction /\ [][NextBuild]_vars

\* ---------------------------------------------- cert_verify and send steps

\* Line 121-122 of send: a request begins; the flag is captured.
SendEnter(t) ==
    /\ tpc[t] = "idle"
    /\ \E v \in VerifyValues : verify' = [verify EXCEPT ![t] = v]
    /\ call' = [call EXCEPT ![t] = "send"]
    /\ send_saved' = [send_saved EXCEPT ![t] = check_hostname]
    /\ entry' = [entry EXCEPT ![t] = check_hostname]
    /\ exc' = [exc EXCEPT ![t] = FALSE]
    /\ tpc' = [tpc EXCEPT ![t] = "send_try"]
    /\ UNCHANGED <<check_hostname, cv_saved, cv_entry, last_done, initial_flag>>
    /\ UNCHANGED buildVars

\* Lines 124-125 of send: the override.
SendSet(t) ==
    /\ tpc[t] = "send_try"
    /\ check_hostname' = IF verify[t] = "False" THEN FALSE ELSE check_hostname
    /\ tpc' = [tpc EXCEPT ![t] = "super_send"]
    /\ UNCHANGED <<call, verify, send_saved, cv_saved, exc, entry, cv_entry,
                   last_done, initial_flag>>
    /\ UNCHANGED buildVars

\* Line 126 of send: the superclass send acquires a connection and then calls
\* self.cert_verify, or raises before it does.
SuperSendConnect(t) ==
    /\ tpc[t] = "super_send"
    /\ \/ /\ tpc' = [tpc EXCEPT ![t] = "cv_enter"]
          /\ UNCHANGED exc
       \/ /\ exc' = [exc EXCEPT ![t] = TRUE]
          /\ tpc' = [tpc EXCEPT ![t] = "send_finally"]
    /\ UNCHANGED <<check_hostname, call, verify, send_saved, cv_saved, entry,
                   cv_entry, last_done, initial_flag>>
    /\ UNCHANGED buildVars

\* Line 112-113 of cert_verify, called by the superclass send.
CertVerifyNested(t) ==
    /\ tpc[t] = "cv_enter"
    /\ cv_saved' = [cv_saved EXCEPT ![t] = check_hostname]
    /\ cv_entry' = [cv_entry EXCEPT ![t] = check_hostname]
    /\ tpc' = [tpc EXCEPT ![t] = "cv_try"]
    /\ UNCHANGED <<check_hostname, call, verify, send_saved, exc, entry,
                   last_done, initial_flag>>
    /\ UNCHANGED buildVars

\* Line 112-113 of cert_verify, called on its own.
CertVerifyEnter(t) ==
    /\ tpc[t] = "idle"
    /\ \E v \in VerifyValues : verify' = [verify EXCEPT ![t] = v]
    /\ call' = [call EXCEPT ![t] = "cert_verify"]
    /\ cv_saved' = [cv_saved EXCEPT ![t] = check_hostname]
    /\ cv_entry' = [cv_entry EXCEPT ![t] = check_hostname]
    /\ entry' = [entry EXCEPT ![t] = check_hostname]
    /\ exc' = [exc EXCEPT ![t] = FALSE]
    /\ tpc' = [tpc EXCEPT ![t] = "cv_try"]
    /\ UNCHANGED <<check_hostname, send_saved, last_done, initial_flag>>
    /\ UNCHANGED buildVars

\* Lines 115-116 of cert_verify: the override.
CvSet(t) ==
    /\ tpc[t] = "cv_try"
    /\ check_hostname' = IF verify[t] = "False" THEN FALSE ELSE check_hostname
    /\ tpc' = [tpc EXCEPT ![t] = "cv_super"]
    /\ UNCHANGED <<call, verify, send_saved, cv_saved, exc, entry, cv_entry,
                   last_done, initial_flag>>
    /\ UNCHANGED buildVars

\* Line 117 of cert_verify: the superclass cert_verify returns or raises.
CvSuper(t) ==
    /\ tpc[t] = "cv_super"
    /\ \E raises \in BOOLEAN : exc' = [exc EXCEPT ![t] = raises]
    /\ tpc' = [tpc EXCEPT ![t] = "cv_finally"]
    /\ UNCHANGED <<check_hostname, call, verify, send_saved, cv_saved, entry,
                   cv_entry, last_done, initial_flag>>
    /\ UNCHANGED buildVars

\* Where cert_verify goes back to: its caller, or, inside the superclass
\* send, the handshake, or with an exception the finally clause of send.
AfterCertVerify(t) ==
    IF call[t] = "cert_verify" THEN "returned"
    ELSE IF exc[t] THEN "send_finally" ELSE "handshake"

\* Lines 118-119 of cert_verify: the finally clause.
\* Variant: line 119 setting the flag to True instead of the captured value.
CvFinally_Reenable(t) ==
    /\ tpc[t] = "cv_finally"
    /\ check_hostname' = TRUE
    /\ tpc' = [tpc EXCEPT ![t] = AfterCertVerify(t)]
    /\ UNCHANGED <<call, verify, send_saved, cv_saved, exc, entry, cv_entry,
                   last_done, initial_flag>>
    /\ UNCHANGED buildVars

CvFinally(t) ==
    /\ tpc[t] = "cv_finally"
    /\ check_hostname' = cv_saved[t]
    /\ tpc' = [tpc EXCEPT ![t] = AfterCertVerify(t)]
    /\ UNCHANGED <<call, verify, send_saved, cv_saved, exc, entry, cv_entry,
                   last_done, initial_flag>>
    /\ UNCHANGED buildVars

\* Line 126 of send, the rest of the superclass send: the request goes over
\* the connection (the TLS handshake); it returns a response or raises.
Handshake(t) ==
    /\ tpc[t] = "handshake"
    /\ \E raises \in BOOLEAN : exc' = [exc EXCEPT ![t] = raises]
    /\ tpc' = [tpc EXCEPT ![t] = "send_finally"]
    /\ UNCHANGED <<check_hostname, call, verify, send_saved, cv_saved, entry,
                   cv_entry, last_done, initial_flag>>
    /\ UNCHANGED buildVars

\* Lines 127-128 of send: the finally clause.
\* Variant: line 128 after the call instead of in finally.
SendFinally_NotOnException(t) ==
    /\ tpc[t] = "send_finally"
    /\ check_hostname' = IF exc[t] THEN check_hostname ELSE send_saved[t]
    /\ tpc' = [tpc EXCEPT ![t] = "returned"]
    /\ UNCHANGED <<call, verify, send_saved, cv_saved, exc, entry, cv_entry,
                   last_done, initial_flag>>
    /\ UNCHANGED buildVars

SendFinally(t) ==
    /\ tpc[t] = "send_finally"
    /\ check_hostname' = send_saved[t]
    /\ tpc' = [tpc EXCEPT ![t] = "returned"]
    /\ UNCHANGED <<call, verify, send_saved, cv_saved, exc, entry, cv_entry,
                   last_done, initial_flag>>
    /\ UNCHANGED buildVars

\* The call has returned or raised; its locals are gone and the caller goes on.
Completed(t) ==
    /\ tpc[t] = "returned"
    /\ last_done' = verify[t]
    /\ tpc' = [tpc EXCEPT ![t] = "idle"]
    /\ call' = [call EXCEPT ![t] = "none"]
    /\ verify' = [verify EXCEPT ![t] = "True"]
    /\ send_saved' = [send_saved EXCEPT ![t] = FALSE]
    /\ cv_saved' = [cv_saved EXCEPT ![t] = FALSE]
    /\ exc' = [exc EXCEPT ![t] = FALSE]
    /\ entry' = [entry EXCEPT ![t] = FALSE]
    /\ cv_entry' = [cv_entry EXCEPT ![t] = FALSE]
    /\ UNCHANGED <<check_hostname, initial_flag>>
    /\ UNCHANGED buildVars

\* No call on the adapter is in progress.
Quiescent == \A t \in Threads : tpc[t] = "idle"

\* A call begins only when no other call is in progress.
SerialSend(t) == Quiescent /\ SendEnter(t)
SerialCertVerify(t) == Quiescent /\ CertVerifyEnter(t)

\* The steps of a call that has begun.
Step(t) ==
    \/ SendSet(t)
    \/ SuperSendConnect(t)
    \/ CertVerifyNested(t)
    \/ CvSet(t)
    \/ CvSuper(t)
    \/ CvFinally(t)
    \/ Handshake(t)
    \/ SendFinally(t)
    \/ Completed(t)

NextSeq == \E t \in Threads : SerialSend(t) \/ SerialCertVerify(t) \/ Step(t)

NextConc == \E t \in Threads : SendEnter(t) \/ CertVerifyEnter(t) \/ Step(t)

\* A constructed adapter; its context's flag is enabled (PROTOCOL_TLS_CLIENT)
\* or disabled (PROTOCOL_SSLv23, or set so by the application).
InitRequests == InitBuild /\ InitAdapter

\* Calls on one adapter that do not overlap.
SpecSeq == InitRequests /\ [][NextSeq]_vars

\* Calls on one adapter from threads that run concurrently.
SpecConc == InitRequests /\ [][NextConc]_vars

\* ------------------------------------------------------------ properties

Expired == Err("ValueError", "Client certificate expired")
TooShort == Err("ValueError", "Password must be 1 or more bytes.")

\* The positions of send between its override and its finally clause.
InsideSend == {"super_send", "cv_enter", "cv_try", "cv_super", "cv_finally",
               "handshake", "send_finally"}

\* C1: with calls that do not overlap, when a call of send or cert_verify has
\* completed, by returning or by raising, check_hostname has the value it had
\* immediately before that call; this holds of the cert_verify that send's
\* superclass calls as well (the handshake follows it directly).
C1_FlagRestoredAfterEachCall ==
    \A t \in Threads :
        /\ tpc[t] = "returned" => check_hostname = entry[t]
        /\ tpc[t] = "handshake" => check_hostname = cv_entry[t]

\* C1: a verify=True send has completed right after a verify=False call, and
\* the flag, enabled at first, is enabled.
C1_Witness ==
    \E t \in Threads :
        /\ tpc[t] = "returned" /\ call[t] = "send" /\ verify[t] = "True"
        /\ last_done = "False"
        /\ initial_flag /\ check_hostname

\* C10: in a send with verify=False the flag is disabled at every position
\* from the override up to the finally clause of send, the nested cert_verify
\* and the handshake included, and has its value from before the send once
\* send has exited.
C10_DisabledThroughoutSend ==
    \A t \in Threads :
        (call[t] = "send" /\ verify[t] = "False") =>
            /\ tpc[t] \in InsideSend => check_hostname = FALSE
            /\ tpc[t] = "returned" => check_hostname = entry[t]

\* C10: a verify=False send on an adapter whose flag was enabled is at the
\* handshake, after the nested cert_verify has restored, with the flag disabled.
C10_Witness ==
    \E t \in Threads :
        /\ tpc[t] = "handshake" /\ call[t] = "send" /\ verify[t] = "False"
        /\ entry[t] = TRUE /\ check_hostname = FALSE

\* C5: on an adapter whose flag starts enabled, a request with verification
\* enabled never is at its wrapped operation (the superclass cert_verify or
\* the handshake) while check_hostname is disabled.
C5_VerifiedRequestSeesEnabledFlag ==
    initial_flag =>
        \A t \in Threads :
            (tpc[t] \in {"cv_super", "handshake"} /\ verify[t] # "False")
                => check_hostname = TRUE

\* C6: once every request has completed, check_hostname has the value it had
\* before the first request began.
C6_FlagRestoredWhenAllComplete ==
    (\A t \in Threads : tpc[t] \in {"idle", "returned"})
        => check_hostname = initial_flag

\* C2: when create_sslcontext has returned or raised, no temporary file it
\* created is on disk, and none is between two constructions.
C2_TempFileRemovedOnEveryExit ==
    /\ pc = "done" => \A n \in hist.created : ~files[n].exists
    /\ pc \in {"done", "idle"} => OnDisk(files) = {}

\* C2: the construction has raised, with a temporary file created on its way.
C2_Witness ==
    /\ pc = "done"
    /\ err # NoError
    /\ hist.created # {}

\* C3, as stated: whenever the expiry error is in flight, no temporary file
\* has been created and nothing has been written.
C3_ExpiryAbortsBeforeFileIO ==
    err = Expired => (hist.created = {} /\ hist.written = <<>>)

\* The blocks written before the certificate at position i of the chain.
WrittenBefore(i) ==
    <<pk_buf, PemCert(cert)>> \o [j \in 1..(i - 1) |-> PemCert(ca_certs.list[j])]

\* C3, amended: an expired leaf certificate aborts the build before the
\* context and the temporary file are created and before anything is written;
\* an expired chain certificate aborts it after the temporary file has been
\* created and the key, the leaf and the certificates before it have been
\* written, without writing the expired certificate and before load_cert_chain.
C3_LeafBeforeFileIO_ChainBeforeLoad ==
    /\ (err = Expired /\ raisedAt = "check_leaf") =>
          /\ hist.created = {}
          /\ hist.written = <<>>
          /\ ~hist.ctxCreated
          /\ ~hist.loadCalled
    /\ (err = Expired /\ raisedAt = "check_chain") =>
          /\ hist.created = {c_name}
          /\ hist.written = WrittenBefore(idx)
          /\ ~hist.loadCalled
          /\ ~ssl_context.returned

\* C3: the second certificate of the chain was found expired.
C3_Witness ==
    /\ err = Expired
    /\ raisedAt = "check_chain"
    /\ idx = 2

\* C4: a construction given both sources, or neither, has failed with the
\* ValueError of the validation, whatever the password argument, and has read
\* no file, called no decoder and created no context.
C4_BothOrNeitherFailsImmediately ==
    LET given(x) == x # None
        both == given(kwargs.pkcs12_data) /\ given(kwargs.pkcs12_filename)
        neither == ~given(kwargs.pkcs12_data) /\ ~given(kwargs.pkcs12_filename)
    IN (pc # "idle" /\ (both \/ neither)) =>
          /\ pc = "done"
          /\ err.type = "ValueError"
          /\ raisedAt = "validate"
          /\ ~hist.fileRead
          /\ ~hist.decodeCalled
          /\ ~hist.ctxCreated
          /\ ssl_context = NoContext
          /\ OnDisk(files) = {}

\* C4: both sources were given, with a password of a type that is rejected.
C4_Witness ==
    /\ pc = "done"
    /\ kwargs.pkcs12_data # None
    /\ kwargs.pkcs12_filename # None
    /\ kwargs.pkcs12_password.type = "other"

\* C7: check_cert_not_after has raised exactly when the certificate's
\* not_valid_after was strictly earlier than the clock, and what it raised is
\* the expiry error.
C7_RaisesIffStrictlyEarlier ==
    hist.checked =>
        /\ hist.checkRaised <=> (hist.checkCert.not_valid_after < hist.checkNow)
        /\ hist.checkRaised => (err = Expired /\ raisedAt \in {"check_leaf", "check_chain"})

\* C7: a certificate whose not_valid_after equals the clock has passed.
C7_Witness ==
    /\ hist.checked
    /\ ~hist.checkRaised
    /\ hist.checkCert.not_valid_after = hist.checkNow
    /\ hist.checkNow > 0

\* The PEM sequence of the decoder's output: key, leaf, chain in order.
ExpectedPem ==
    <<pk_buf, PemCert(cert)>>
        \o (IF ca_certs.present
            THEN [j \in 1..Len(ca_certs.list) |-> PemCert(ca_certs.list[j])]
            ELSE <<>>)

\* C8: what load_cert_chain is handed, and what a successful build has loaded,
\* is one private-key block, the leaf, then every chain certificate in the
\* decoder's order, repeated ones included.
C8_LoadedChainIsKeyLeafChainInOrder ==
    /\ hist.loadCalled =>
          /\ hist.handed = ExpectedPem
          /\ hist.handed[1].kind = "PRIVATE KEY"
          /\ \A j \in 2..Len(hist.handed) : hist.handed[j].kind = "CERTIFICATE"
    /\ (pc = "done" /\ err = NoError) =>
          /\ hist.loadCalled
          /\ ssl_context.chain = ExpectedPem

\* C8: a build has succeeded with a chain that holds one certificate twice.
C8_Witness ==
    /\ pc = "done"
    /\ err = NoError
    /\ ca_certs.present
    /\ Len(ca_certs.list) = 2
    /\ ca_certs.list[1] = ca_certs.list[2]

\* C9: the key block is encrypted, with the password, exactly when a password
\* is present; an empty password is present: the build then serialises no key
\* and returns no context, and the rejection of the encryption is what the
\* caller gets; with no password the key block is the unencrypted one, the
\* encryption never rejects and a build in which nothing else fails returns
\* its context.
C9_KeyEncryptedIffPasswordPresent ==
    LET pw == pkcs12_password_bytes IN
    /\ hist.keySerialized =>
          /\ pk_buf.enc <=> pw.present
          /\ pk_buf.enc => pk_buf.pass = pw.val
    /\ (pw.present /\ pw.val = <<>>) =>
          /\ ~hist.keySerialized
          /\ ~ssl_context.returned
          /\ (raisedAt = "ser_key" /\ private_key # None) => err = TooShort
          /\ (pc = "done" /\ raisedAt = "ser_key") => (err # NoError /\ ~hist.loadCalled)
    /\ (pc # "idle" /\ ~pw.present) =>
          /\ err # TooShort
          /\ hist.keySerialized => pk_buf = PemKeyPlain
          /\ (pc = "done" /\ raisedAt = "") => ssl_context.returned

\* C9: a build with an empty bytes password has ended with the rejection.
C9_Witness ==
    /\ pc = "done"
    /\ kwargs.pkcs12_password = [type |-> "bytes", val |-> <<>>]
    /\ err = TooShort
    /\ hist.created # {}

==========================================================================
